---- MODULE Spec2Model ----
(***************************************************************************)
(* three-d-asset: the asset graph (Model, Scene and their identity-based   *)
(* material deduplication, src/lib.rs) and the packed colour codec         *)
(* (src/prelude/color.rs).                                                 *)
(***************************************************************************)
EXTENDS Integers, Sequences, FiniteSets, TLC

VARIABLES
    heap,       \* the live PbrMaterial allocations: instance -> field values
    strong,     \* the Rc strong count of every allocation
    scene,      \* the Scene: [animations, models], a Model is [name, geometries]
    modelRet,   \* per model, the Vec its last materials() call returned, or NoCall
    sceneRet,   \* the Vec the last Scene::materials() call returned, or NoCall
    input,      \* the argument handed to the colour codec
    pc,         \* where the caller of the codec stands
    packed,     \* the usize a Color was converted into
    decoded,    \* the Result<Color, ColorConversionError> of a try_from
    color       \* the Color a constructor or an unwrapped try_from produced

graphVars == <<heap, strong, scene, modelRet, sceneRet>>

codecVars == <<input, pc, packed, decoded, color>>

vars == <<heap, strong, scene, modelRet, sceneRet, input, pc, packed, decoded, color>>

(***************************************************************************)
(* Bounds of the asset-graph model.                                        *)
(***************************************************************************)
MaxModels == 2
MaxGeometries == 4

\* Option::None of TriMesh::material
None == "None"
\* a materials() result that has not been requested yet
NoCall == "NoCall"

\* The Rc<PbrMaterial> allocations a loader made.  matA and matB hold the same
\* field values in two distinct allocations, matC holds other values.
Materials == {"matA", "matB", "matC"}
MaterialValue == [matA |-> "grey", matB |-> "grey", matC |-> "red"]

ModelNames == {"mesh"}
KeyFrames == {"kf"}

\* A geometry entry; only the field the code under study reads is kept.
TriMesh(m) == [material |-> m]

\* Model { name, geometries }
Model(name, geometries) == [name |-> name, geometries |-> geometries]

\* The models obtained by cutting one flat list of entries at the given points.
SplitModels(flat, k, cuts) ==
    [j \in 1..k |->
        LET lo == IF j = 1 THEN 0 ELSE cuts[j - 1]
            hi == IF j = k THEN Len(flat) ELSE cuts[j]
        IN  Model(CHOOSE n \in ModelNames : TRUE, SubSeq(flat, lo + 1, hi))]

\* Scene { animations, models }
Scene(animations, models) == [animations |-> animations, models |-> models]

RECURSIVE FlatMapGeometries(_)
\* self.models.iter().flat_map(|m| m.geometries.iter())
FlatMapGeometries(models) ==
    IF models = <<>> THEN <<>>
    ELSE Head(models).geometries \o FlatMapGeometries(Tail(models))

\* .map(|g| g.material.clone())
MapMaterial(geometries) ==
    [k \in 1..Len(geometries) |-> geometries[k].material]

Count(m, list) == Cardinality({k \in 1..Len(list) : list[k] = m})

\* The number of geometry entries of the scene that hold a handle to m.
Handles(m, s) == Count(m, MapMaterial(FlatMapGeometries(s.models)))

\* A comparison of the materials' field values where the code compares pointers.
ValueEq(m, mat) == heap[m] = heap[mat]

\* Rc::ptr_eq: two handles are the same when they point to one allocation.
PtrEq(m, mat) == m = mat

RECURSIVE ModelLoop(_, _)
\* Model::materials, the for loop: mats is what the iterator still yields,
\* materials the Vec built so far.
ModelLoop(mats, materials) ==
    IF mats = <<>> THEN materials
    ELSE LET mat == Head(mats) IN
         ModelLoop(Tail(mats),
                   IF /\ mat # None
                      /\ ~ \E k \in 1..Len(materials) : PtrEq(materials[k], mat)
                   THEN Append(materials, mat)
                   ELSE materials)

\* Model::materials without the `any` test: every Some material is pushed.
ModelMaterialsNoDedup(self) ==
    SelectSeq(MapMaterial(self.geometries), LAMBDA m : m # None)

\* Model::materials(&self)
ModelMaterials(self) == ModelLoop(MapMaterial(self.geometries), <<>>)

RECURSIVE SceneLoop(_, _)
\* Scene::materials, the for loop.
SceneLoop(mats, materials) ==
    IF mats = <<>> THEN materials
    ELSE LET mat == Head(mats) IN
         SceneLoop(Tail(mats),
                   IF /\ mat # None
                      /\ ~ \E k \in 1..Len(materials) : PtrEq(materials[k], mat)
                   THEN Append(materials, mat)
                   ELSE materials)

RECURSIVE PerModelConcat(_)
\* Scene::materials deduplicating inside each model only.
PerModelConcat(models) ==
    IF models = <<>> THEN <<>>
    ELSE ModelLoop(MapMaterial(Head(models).geometries), <<>>)
            \o PerModelConcat(Tail(models))

SceneMaterialsPerModel(self) == PerModelConcat(self.models)

\* Scene::materials walking the models back to front.
SceneMaterialsReversed(self) ==
    LET n == Len(self.models)
        rev == [j \in 1..n |-> self.models[n + 1 - j]]
    IN  SceneLoop(MapMaterial(FlatMapGeometries(rev)), <<>>)

\* Scene::materials(&self)
SceneMaterials(self) ==
    SceneLoop(MapMaterial(FlatMapGeometries(self.models)), <<>>)

\* The handles a returned Vec holds (none when no Vec is held).
Held(m, ret) == IF ret = NoCall THEN 0 ELSE Count(m, ret)

\* A loader built the scene: up to MaxModels models holding up to MaxGeometries
\* entries between them, each entry with one of the materials or none.
GraphInit ==
    /\ \E k \in 0..MaxModels : \E n \in 0..MaxGeometries :
        \E flat \in [1..n -> {TriMesh(m) : m \in Materials \cup {None}}] :
        \E cuts \in [1..(k - 1) -> 0..n] :
        \E kf \in KeyFrames :
            /\ k = 0 => n = 0
            /\ \A a \in 1..(k - 1) : \A b \in 1..(k - 1) : a <= b => cuts[a] <= cuts[b]
            /\ scene = Scene(<<kf>>, SplitModels(flat, k, cuts))
    /\ heap = [m \in {x \in Materials : Handles(x, scene) > 0} |-> MaterialValue[m]]
    /\ strong = [m \in DOMAIN heap |-> Handles(m, scene)]
    /\ modelRet = [j \in 1..Len(scene.models) |-> NoCall]
    /\ sceneRet = NoCall

\* let v = scene.models[j].materials(); the Vec kept from an earlier call is
\* dropped.  Every clone() the loop keeps adds one strong handle; a clone it
\* does not push is dropped at the end of the iteration.
CallModelMaterials(j) ==
    /\ j \in 1..Len(scene.models)
    /\ LET ret == ModelMaterials(scene.models[j]) IN
        /\ modelRet' = [modelRet EXCEPT ![j] = ret]
        /\ strong' = [m \in DOMAIN strong |->
                        strong[m] - Held(m, modelRet[j]) + Held(m, ret)]
    /\ UNCHANGED <<heap, scene, sceneRet>>
    /\ UNCHANGED codecVars

\* Scene::materials moving the handles out of the entries (Option::take)
\* instead of cloning them.
CallSceneMaterialsTake ==
    /\ sceneRet' = SceneMaterials(scene)
    /\ scene' = [scene EXCEPT !.models =
                    [j \in 1..Len(scene.models) |->
                        [scene.models[j] EXCEPT !.geometries =
                            [k \in 1..Len(scene.models[j].geometries) |-> TriMesh(None)]]]]
    /\ strong' = [m \in DOMAIN strong |->
                    strong[m] - Held(m, sceneRet) + Held(m, sceneRet') - Handles(m, scene)]
    /\ UNCHANGED <<heap, modelRet>>
    /\ UNCHANGED codecVars

\* let v = scene.materials();
CallSceneMaterials ==
    /\ LET ret == SceneMaterials(scene) IN
        /\ sceneRet' = ret
        /\ strong' = [m \in DOMAIN strong |->
                        strong[m] - Held(m, sceneRet) + Held(m, ret)]
    /\ UNCHANGED <<heap, scene, modelRet>>
    /\ UNCHANGED codecVars

\* A scene without models, the graph state while only the codec runs.
GraphEmpty ==
    /\ scene = Scene(<<>>, <<>>)
    /\ heap = <<>>
    /\ strong = <<>>
    /\ modelRet = <<>>
    /\ sceneRet = NoCall

(***************************************************************************)
(* The colour codec.  A usize is its row of bits, bit k weighing 2^k, so   *)
(* that masks, shifts and the comparison with 0xFF_FF_FF_FF are computed   *)
(* on the machine word itself.                                             *)
(***************************************************************************)
UsizeBits == 64
SmallRange == 300

BitIndex == 0..(UsizeBits - 1)

\* bit k of the byte b
ByteBit(b, k) == (b \div (2 ^ k)) % 2

\* The usize written as the hexadecimal literal whose bytes, most significant
\* first, are `bytes` (0xFF_00_00_00 is Literal(<<255, 0, 0, 0>>)).
Literal(bytes) ==
    [k \in BitIndex |->
        IF k \div 8 < Len(bytes) THEN ByteBit(bytes[Len(bytes) - (k \div 8)], k % 8)
        ELSE 0]

\* `x as usize` of a u8
U8AsUsize(x) == Literal(<<x>>)

RECURSIVE BitsValue(_, _, _)
\* the number the bits lo .. hi-1 of w spell, bit lo weighing 1
BitsValue(w, lo, hi) ==
    IF lo >= hi THEN 0 ELSE w[lo] + 2 * BitsValue(w, lo + 1, hi)

\* `x as u8` of a usize: the low eight bits
UsizeAsU8(w) == BitsValue(w, 0, 8)

\* a << n and a >> n on usize
Shl(a, n) == [k \in BitIndex |-> IF k >= n THEN a[k - n] ELSE 0]
Shr(a, n) == [k \in BitIndex |-> IF k + n < UsizeBits THEN a[k + n] ELSE 0]

\* a & b and a | b on usize
BitAnd(a, b) == [k \in BitIndex |-> IF a[k] = 1 /\ b[k] = 1 THEN 1 ELSE 0]
BitOr(a, b) == [k \in BitIndex |-> IF a[k] = 1 \/ b[k] = 1 THEN 1 ELSE 0]

\* a >= b on usize: equal, or a holds the highest bit in which they differ
Geq(a, b) ==
    LET diff == {k \in BitIndex : a[k] # b[k]} IN
    \/ diff = {}
    \/ a[CHOOSE k \in diff : \A l \in diff : l <= k] = 1

\* Color::new
ColorNew(r, g, b, a) == [r |-> r, g |-> g, b |-> b, a |-> a]

\* Color::new_opaque
ColorNewOpaque(r, g, b) == [r |-> r, g |-> g, b |-> b, a |-> 255]

\* Color::WHITE and Default for Color
ColorWhite == ColorNewOpaque(255, 255, 255)
ColorDefault == ColorWhite

\* Result<Color, ColorConversionError>
Ok(c) == [tag |-> "Ok", color |-> c]
Err(e) == [tag |-> "Err", error |-> e]
Overflow == "Overflow"

\* try_from rejecting with `>` where the code has `>=`.
ColorTryFromGt(value) ==
    IF Geq(value, Literal(<<255, 255, 255, 255>>)) /\ value # Literal(<<255, 255, 255, 255>>)
    THEN Err(Overflow)
    ELSE Ok(ColorNew(UsizeAsU8(Shr(BitAnd(value, Literal(<<255, 0, 0, 0>>)), 24)),
                     UsizeAsU8(Shr(BitAnd(value, Literal(<<0, 255, 0, 0>>)), 16)),
                     UsizeAsU8(Shr(BitAnd(value, Literal(<<0, 0, 255, 0>>)), 8)),
                     UsizeAsU8(Shr(BitAnd(value, Literal(<<0, 0, 0, 255>>)), 0))))

\* try_from with the shifts of green and blue exchanged.
ColorTryFromBadShift(value) ==
    IF Geq(value, Literal(<<255, 255, 255, 255>>))
    THEN Err(Overflow)
    ELSE Ok(ColorNew(UsizeAsU8(Shr(BitAnd(value, Literal(<<255, 0, 0, 0>>)), 24)),
                     UsizeAsU8(Shr(BitAnd(value, Literal(<<0, 255, 0, 0>>)), 8)),
                     UsizeAsU8(Shr(BitAnd(value, Literal(<<0, 0, 255, 0>>)), 16)),
                     UsizeAsU8(Shr(BitAnd(value, Literal(<<0, 0, 0, 255>>)), 0))))

\* impl TryFrom<usize> for Color
ColorTryFrom(value) ==
    IF Geq(value, Literal(<<255, 255, 255, 255>>))
    THEN Err(Overflow)
    ELSE LET r == UsizeAsU8(Shr(BitAnd(value, Literal(<<255, 0, 0, 0>>)), 24))
             g == UsizeAsU8(Shr(BitAnd(value, Literal(<<0, 255, 0, 0>>)), 16))
             b == UsizeAsU8(Shr(BitAnd(value, Literal(<<0, 0, 255, 0>>)), 8))
             a == UsizeAsU8(Shr(BitAnd(value, Literal(<<0, 0, 0, 255>>)), 0))
         IN  Ok(ColorNew(r, g, b, a))

\* From<Color> with `=` where the code has `|=`: only the last channel stays.
UsizeFromAssign(value) == Shl(U8AsUsize(value.a), 0)

\* From<Color> packing the channels least significant first.
UsizeFromLittleEndian(value) ==
    BitOr(BitOr(Shl(U8AsUsize(value.r), 0), Shl(U8AsUsize(value.g), 8)),
          BitOr(Shl(U8AsUsize(value.b), 16), Shl(U8AsUsize(value.a), 24)))

\* impl From<Color> for usize
UsizeFrom(value) ==
    LET i0 == Literal(<<0>>)
        i1 == BitOr(i0, Shl(U8AsUsize(value.r), 24))
        i2 == BitOr(i1, Shl(U8AsUsize(value.g), 16))
        i3 == BitOr(i2, Shl(U8AsUsize(value.b), 8))
        i4 == BitOr(i3, Shl(U8AsUsize(value.a), 0))
    IN  i4

(***************************************************************************)
(* f32 values.  A finite value is num / 2^8, which an f32 holds exactly    *)
(* for the numerators used here, and so is its product with 255.0.         *)
(***************************************************************************)
F32Unit == 2 ^ 8
Finite(num) == [class |-> "finite", num |-> num]
NaN == [class |-> "nan", num |-> 0]
Infinity == [class |-> "inf", num |-> 1]
NegInfinity == [class |-> "inf", num |-> -1]

\* x * 255.0
Mul255(x) == IF x.class = "finite" THEN Finite(x.num * 255) ELSE x

\* the integer part of a finite f32, rounding toward zero
Trunc(x) == IF x.num >= 0 THEN x.num \div F32Unit ELSE -((-x.num) \div F32Unit)

\* A cast that wraps modulo 256 instead of saturating.
F32AsU8Wrapping(x) ==
    IF x.class = "finite" THEN Trunc(x) % 256 ELSE 0

\* `x as u8` of an f32: toward zero, saturating at the ends of u8, NaN to 0
F32AsU8(x) ==
    IF x.class = "nan" THEN 0
    ELSE IF x.class = "inf" THEN (IF x.num > 0 THEN 255 ELSE 0)
    ELSE IF Trunc(x) < 0 THEN 0
    ELSE IF Trunc(x) > 255 THEN 255
    ELSE Trunc(x)

\* Color::from_rgb_slice
ColorFromRgbSlice(rgba) ==
    [r |-> F32AsU8(Mul255(rgba[1])),
     g |-> F32AsU8(Mul255(rgba[2])),
     b |-> F32AsU8(Mul255(rgba[3])),
     a |-> ColorDefault.a]

\* Color::from_rgba_slice
ColorFromRgbaSlice(rgba) ==
    [r |-> F32AsU8(Mul255(rgba[1])),
     g |-> F32AsU8(Mul255(rgba[2])),
     b |-> F32AsU8(Mul255(rgba[3])),
     a |-> F32AsU8(Mul255(rgba[4]))]

(***************************************************************************)
(* The arguments the codec is run on.                                      *)
(***************************************************************************)
ByteSamples == {0, 1, 128, 254, 255}
ColorSamples ==
    {ColorNew(r, g, b, a) : r \in ByteSamples, g \in ByteSamples,
                            b \in ByteSamples, a \in ByteSamples}

RECURSIVE BytesOf(_, _)
\* the n bytes of a natural number below 2^31, most significant first
BytesOf(v, n) == IF n = 0 THEN <<>> ELSE Append(BytesOf(v \div 256, n - 1), v % 256)

UsizeSamples ==
    \* every value whose four low bytes are sample bytes
    {Literal(<<c.r, c.g, c.b, c.a>>) : c \in ColorSamples}
    \* a run of small values
    \cup {Literal(BytesOf(v, 4)) : v \in 0..SmallRange}
    \* values wider than 32 bits
    \cup {Literal(h \o l) :
            h \in {<<0, 0, 0, 1>>, <<128, 0, 0, 0>>, <<255, 255, 255, 255>>},
            l \in {<<b3, b2, b1, b0>> : b3 \in {0, 255}, b2 \in {0, 255},
                                        b1 \in {0, 255}, b0 \in {0, 254, 255}}}

F32Samples ==
    {Finite(n) : n \in {-F32Unit, -1, 0, F32Unit \div 2, F32Unit, F32Unit + 2}}
    \cup {NaN, Infinity}

Inputs ==
    {[kind |-> "color", color |-> c] : c \in ColorSamples}
    \cup {[kind |-> "usize", value |-> v] : v \in UsizeSamples}
    \cup {[kind |-> "rgb", slice |-> s] : s \in [1..3 -> F32Samples \cup {NegInfinity}]}
    \cup {[kind |-> "rgba", slice |-> s] : s \in [1..4 -> F32Samples]}

Unset == [tag |-> "Unset"]

CodecIdle ==
    /\ input = [kind |-> "none"]
    /\ pc = "idle"
    /\ packed = Unset
    /\ decoded = Unset
    /\ color = Unset

CodecInit ==
    /\ input \in Inputs
    /\ pc = "start"
    /\ packed = Unset
    /\ decoded = Unset
    /\ color = Unset

\* color_roundtrip: let i: usize = input.into();
ColorInto ==
    /\ pc = "start"
    /\ input.kind = "color"
    /\ packed' = UsizeFrom(input.color)
    /\ pc' = "encoded"
    /\ UNCHANGED <<input, decoded, color>>
    /\ UNCHANGED graphVars

\* color_roundtrip: let output: Result<Color, ColorConversionError> = i.try_into();
UsizeTryInto ==
    /\ pc = "encoded"
    /\ decoded' = ColorTryFrom(packed)
    /\ pc' = "done"
    /\ UNCHANGED <<input, packed, color>>
    /\ UNCHANGED graphVars

\* usize_roundtrip: let color: Color = input.try_into().expect(..);
\* expect panics on an Err.
UsizeTryIntoExpect ==
    /\ pc = "start"
    /\ input.kind = "usize"
    /\ LET res == ColorTryFrom(input.value) IN
        /\ decoded' = res
        /\ IF res.tag = "Ok"
           THEN color' = res.color /\ pc' = "decoded"
           ELSE color' = color /\ pc' = "panicked"
    /\ UNCHANGED <<input, packed>>
    /\ UNCHANGED graphVars

\* usize_roundtrip: let output: usize = color.into();
ColorIntoOutput ==
    /\ pc = "decoded"
    /\ packed' = UsizeFrom(color)
    /\ pc' = "done"
    /\ UNCHANGED <<input, decoded, color>>
    /\ UNCHANGED graphVars

\* let color = Color::from_rgb_slice(&input);
FromRgbSlice ==
    /\ pc = "start"
    /\ input.kind = "rgb"
    /\ color' = ColorFromRgbSlice(input.slice)
    /\ pc' = "done"
    /\ UNCHANGED <<input, packed, decoded>>
    /\ UNCHANGED graphVars

\* let color = Color::from_rgba_slice(&input);
FromRgbaSlice ==
    /\ pc = "start"
    /\ input.kind = "rgba"
    /\ color' = ColorFromRgbaSlice(input.slice)
    /\ pc' = "done"
    /\ UNCHANGED <<input, packed, decoded>>
    /\ UNCHANGED graphVars

(***************************************************************************)
(* The asset graph on its own: the codec is idle.                          *)
(***************************************************************************)
Init == GraphInit /\ CodecIdle

Next ==
    \/ \E j \in 1..MaxModels : CallModelMaterials(j)
    \/ CallSceneMaterials

Spec == Init /\ [][Next]_vars

(***************************************************************************)
(* The colour codec on its own: the scene is empty.                        *)
(***************************************************************************)
ColorInit == GraphEmpty /\ CodecInit

ColorNext ==
    \/ ColorInto
    \/ UsizeTryInto
    \/ UsizeTryIntoExpect
    \/ ColorIntoOutput
    \/ FromRgbSlice
    \/ FromRgbaSlice

SpecColor == ColorInit /\ [][ColorNext]_vars

(***************************************************************************)
(* Properties of the asset graph, checked under Spec.                      *)
(***************************************************************************)

\* the material references of a model's entries, in entry order
EntryMaterials(model) ==
    [k \in 1..Len(model.geometries) |-> model.geometries[k].material]

\* ret lists what src references: no element twice, exactly the instances src
\* holds, each placed by its first position in src
IsFirstOccurrenceList(ret, src) ==
    /\ \A a \in 1..Len(ret) : \A b \in 1..Len(ret) : ret[a] = ret[b] => a = b
    /\ {ret[a] : a \in 1..Len(ret)} = {src[k] : k \in 1..Len(src)} \ {None}
    /\ \A a \in 1..Len(ret) : \A b \in 1..Len(ret) :
          a < b => \E k \in 1..Len(src) :
                      /\ src[k] = ret[a]
                      /\ \A l \in 1..k : src[l] # ret[b]

\* C4: Model::materials() returns each material instance the model's entries
\* reference exactly once, in the order of first occurrence; entries without
\* a material add nothing and nothing else appears.
C4_ModelFirstOccurrence ==
    \A j \in DOMAIN modelRet :
        modelRet[j] # NoCall =>
            IsFirstOccurrenceList(modelRet[j], EntryMaterials(scene.models[j]))

\* the model [e1 -> matA, e2 -> matB, e3 -> matA, e4 -> none] answered [matA, matB]
C4_Witness ==
    \E j \in DOMAIN modelRet :
        /\ EntryMaterials(scene.models[j]) = <<"matA", "matB", "matA", None>>
        /\ modelRet[j] # NoCall
        /\ modelRet[j] = <<"matA", "matB">>

\* the places <<model, entry>> of the scene that reference m
Places(m) ==
    {p \in UNION {{<<j, k>> : k \in 1..Len(scene.models[j].geometries)} :
                    j \in 1..Len(scene.models)} :
        scene.models[p[1]].geometries[p[2]].material = m}

\* p comes before q scanning models in scene order, then entries in entry order
Before(p, q) == p[1] < q[1] \/ (p[1] = q[1] /\ p[2] < q[2])

\* C5: Scene::materials() returns each material instance referenced anywhere
\* in the scene exactly once, ordered by first occurrence over the models in
\* scene order and the entries of each model in entry order.
C5_SceneFirstOccurrence ==
    sceneRet # NoCall =>
        /\ \A a \in 1..Len(sceneRet) : \A b \in 1..Len(sceneRet) :
              sceneRet[a] = sceneRet[b] => a = b
        /\ \A m \in Materials :
              (\E a \in 1..Len(sceneRet) : sceneRet[a] = m) <=> Places(m) # {}
        /\ \A a \in 1..Len(sceneRet) : sceneRet[a] \in Materials
        /\ \A a \in 1..Len(sceneRet) : \A b \in 1..Len(sceneRet) :
              a < b => \E p \in Places(sceneRet[a]) :
                          \A q \in Places(sceneRet[b]) : Before(p, q)

\* two models sharing matB: it is listed once, where the first model uses it
C5_Witness ==
    /\ Len(scene.models) = 2
    /\ EntryMaterials(scene.models[1]) = <<"matA", "matB">>
    /\ EntryMaterials(scene.models[2]) = <<"matB", "matC">>
    /\ sceneRet # NoCall
    /\ sceneRet = <<"matA", "matB", "matC">>

\* ret keeps apart every two distinct instances among `instances`, equal in
\* value or not, and holds one element per instance
KeepsInstancesApart(ret, instances) ==
    /\ \A m1 \in instances : \A m2 \in instances :
          (m1 # m2 /\ heap[m1] = heap[m2]) =>
              \E a \in 1..Len(ret) : \E b \in 1..Len(ret) :
                  a # b /\ ret[a] = m1 /\ ret[b] = m2
    /\ Len(ret) = Cardinality(instances)

\* C6: deduplication is by instance, not by value: two materials with equal
\* field values in distinct allocations both appear, and entries collapse
\* only when they reference the same allocation.
C6_IdentityNotValue ==
    /\ \A j \in DOMAIN modelRet :
          modelRet[j] # NoCall =>
              KeepsInstancesApart(modelRet[j],
                  {m \in Materials : \E p \in Places(m) : p[1] = j})
    /\ sceneRet # NoCall =>
          KeepsInstancesApart(sceneRet, {m \in Materials : Places(m) # {}})

\* matA and matB, equal in value, both listed by a model and by the scene
C6_Witness ==
    /\ {"matA", "matB"} \subseteq DOMAIN heap
    /\ heap["matA"] = heap["matB"]
    /\ sceneRet # NoCall
    /\ \E a \in 1..Len(sceneRet) : sceneRet[a] = "matA"
    /\ \E a \in 1..Len(sceneRet) : sceneRet[a] = "matB"
    /\ \E j \in DOMAIN modelRet :
          /\ modelRet[j] # NoCall
          /\ \E a \in 1..Len(modelRet[j]) : modelRet[j][a] = "matA"
          /\ \E a \in 1..Len(modelRet[j]) : modelRet[j][a] = "matB"

\* C9: a materials() call leaves the scene (model names, entries and their
\* material references, models, animations) and every material's field
\* values as they were, and a call repeated on the same target returns the
\* list it returned before.
C9_NoSideEffect ==
    [][ /\ scene' = scene
        /\ heap' = heap
        /\ \A j \in DOMAIN modelRet :
              modelRet[j] # NoCall => modelRet'[j] = modelRet[j]
        /\ sceneRet # NoCall => sceneRet' = sceneRet ]_vars

\* every query of a scene with two populated models has been answered
C9_Witness ==
    /\ Len(scene.models) = 2
    /\ \A j \in DOMAIN modelRet :
          modelRet[j] # NoCall /\ Len(scene.models[j].geometries) > 0
    /\ sceneRet # NoCall
    /\ Len(sceneRet) > 1

RECURSIVE ConcatRets(_)
\* the lists the models returned, one after the other
ConcatRets(j) == IF j = 0 THEN <<>> ELSE ConcatRets(j - 1) \o modelRet[j]

\* C10: the scene's list is the first-occurrence deduplication of the models'
\* lists joined in scene order; with one model it is that model's list.
C10_SceneAgreesWithModels ==
    (sceneRet # NoCall /\ \A j \in DOMAIN modelRet : modelRet[j] # NoCall) =>
        /\ IsFirstOccurrenceList(sceneRet, ConcatRets(Len(scene.models)))
        /\ Len(scene.models) = 1 => sceneRet = modelRet[1]

\* two models whose lists overlap, both lists and the scene's list returned
C10_Witness ==
    /\ Len(scene.models) = 2
    /\ sceneRet # NoCall
    /\ \A j \in DOMAIN modelRet : modelRet[j] # NoCall
    /\ modelRet[1] = <<"matC", "matA">>
    /\ modelRet[2] = <<"matA", "matB">>
    /\ sceneRet = <<"matC", "matA", "matB">>

(***************************************************************************)
(* Properties of the colour codec, checked under SpecColor.                *)
(***************************************************************************)

\* w >= 0xFFFFFFFF: a bit above the low 32 is set, or all low 32 bits are
AtLeastMax(w) ==
    \/ \E k \in 32..(UsizeBits - 1) : w[k] = 1
    \/ \A k \in 0..31 : w[k] = 1

\* C1: try_from answers Err(Overflow) for every value >= 0xFFFFFFFF, the
\* packed white included, and Ok for every smaller value; a rejected value
\* yields no Color.
C1_OverflowBoundary ==
    /\ (input.kind = "usize" /\ pc # "start") =>
          IF AtLeastMax(input.value)
          THEN decoded = Err(Overflow) /\ color = Unset /\ pc = "panicked"
          ELSE decoded.tag = "Ok" /\ pc # "panicked"
    /\ (input.kind = "color" /\ pc = "done") =>
          IF AtLeastMax(packed)
          THEN decoded = Err(Overflow)
          ELSE decoded.tag = "Ok"

\* 0xFFFFFFFF itself was handed to try_from and rejected
C1_Witness ==
    /\ input.kind = "usize"
    /\ input.value = Literal(<<255, 255, 255, 255>>)
    /\ pc = "panicked"
    /\ decoded = Err(Overflow)

\* C2: for every i in [0, 0xFFFFFFFE] decoding succeeds and encoding the
\* decoded Color gives i back.
C2_UsizeRoundTrip ==
    (input.kind = "usize" /\ ~AtLeastMax(input.value)) =>
        /\ pc # "panicked"
        /\ pc = "done" => packed = input.value

\* 0xFFFFFFFE went through decode and encode
C2_Witness ==
    /\ input.kind = "usize"
    /\ input.value = Literal(<<255, 255, 255, 254>>)
    /\ pc = "done"
    /\ packed = Literal(<<255, 255, 255, 254>>)

\* C3: every Color but (255,255,255,255) survives encode then decode.
C3_ColorRoundTrip ==
    (input.kind = "color" /\ pc = "done"
        /\ input.color # ColorNew(255, 255, 255, 255)) =>
        decoded = Ok(input.color)

\* Color(255,255,255,254) went through encode and decode
C3_Witness ==
    /\ input.kind = "color"
    /\ input.color = ColorNew(255, 255, 255, 254)
    /\ pc = "done"
    /\ decoded = Ok(ColorNew(255, 255, 255, 254))

RECURSIVE Weigh(_, _, _)
\* the number spelled by bits lo..hi of a word, bit hi weighing most
Weigh(w, lo, hi) == IF hi < lo THEN 0 ELSE 2 * Weigh(w, lo + 1, hi) + w[lo]

\* C7: the encoded value is r*2^24 + g*2^16 + b*2^8 + a.  The value is
\* written as its two 16-bit halves: the upper half is r*2^8 + g, the lower
\* b*2^8 + a, and no bit from 2^32 up is set.
C7_PackedLayout ==
    (input.kind = "color" /\ pc \in {"encoded", "done"}) =>
        /\ Weigh(packed, 16, 31) = input.color.r * (2 ^ 8) + input.color.g
        /\ Weigh(packed, 0, 15) = input.color.b * (2 ^ 8) + input.color.a
        /\ \A k \in 32..(UsizeBits - 1) : packed[k] = 0

\* a colour with four different channels was encoded
C7_Witness ==
    /\ input.kind = "color"
    /\ input.color = ColorNew(1, 128, 254, 255)
    /\ pc = "encoded"
    /\ packed = Literal(<<1, 128, 254, 255>>)

\* byte is 255 * x cut toward zero and then held inside 0..255 (NaN gives 0)
IsSaturatedTrunc(byte, x) ==
    IF x.class = "nan" THEN byte = 0
    ELSE IF x.class = "inf" THEN byte = (IF x.num > 0 THEN 255 ELSE 0)
    ELSE LET n == 255 * x.num
             lim == (IF x.num < 0 THEN -x.num ELSE x.num) + 1
         IN  \E t \in (-lim)..lim :
                /\ \/ n >= 0 /\ t >= 0 /\ t * F32Unit <= n /\ n < (t + 1) * F32Unit
                   \/ n < 0 /\ t <= 0 /\ t * F32Unit >= n /\ n > (t - 1) * F32Unit
                /\ byte = (IF t < 0 THEN 0 ELSE IF t > 255 THEN 255 ELSE t)

\* the bytes of the constructed colour, in the order of the slice
ColorBytes == <<color.r, color.g, color.b, color.a>>

\* C8, as amended: each byte is the component scaled by 255, cut toward zero
\* and saturated to 0..255 (NaN gives 0); from_rgb_slice sets alpha to 255.
C8_SaturatingTruncation ==
    (input.kind \in {"rgb", "rgba"} /\ pc = "done") =>
        /\ \A k \in 1..Len(input.slice) : IsSaturatedTrunc(ColorBytes[k], input.slice[k])
        /\ input.kind = "rgb" => color.a = 255

\* a slice with a component above 1.0 and one below 0.0 was converted
C8_Witness ==
    /\ input.kind = "rgba"
    /\ input.slice = <<Finite(F32Unit + 2), Finite(-F32Unit), Finite(F32Unit), NaN>>
    /\ pc = "done"
    /\ color = ColorNew(255, 0, 255, 0)

\* 255 * x, cut toward zero, leaves 0..255
ScaledOutOfByteRange(x) ==
    /\ x.class = "finite"
    /\ \/ 255 * x.num >= 256 * F32Unit
       \/ 255 * x.num <= -F32Unit

\* C8 as stated: a component outside [0.0, 1.0] is not saturated to 0 or 255.
C8_NotSaturated ==
    (input.kind \in {"rgb", "rgba"} /\ pc = "done") =>
        \A k \in 1..Len(input.slice) :
            ScaledOutOfByteRange(input.slice[k]) =>
                ColorBytes[k] # (IF input.slice[k].num < 0 THEN 0 ELSE 255)

====
